---- MODULE Spec2Model ----
(***************************************************************************)
(* Model of src/models/typeDefinition.ts: the construction of a            *)
(* TypeDefinition (a tree of TypeDefinitionProperty objects) from a        *)
(* SchemaObjectContract.                                                   *)
(*                                                                         *)
(* Representation.                                                         *)
(*  - A JavaScript string that the code concatenates or splits (property   *)
(*    names, titles, $ref) is a sequence of its pieces: a name is the      *)
(*    sequence of its characters, a $ref the sequence of its "/"-separated *)
(*    segments.  Type names, formats and kinds are TLA+ strings.           *)
(*  - A schema fragment is a record holding exactly the fields that are    *)
(*    present (and truthy) on the JavaScript object; `$ref` is spelled     *)
(*    ref.  `properties` is the sequence of the object's entries in        *)
(*    Object.keys order, each [name |-> key, schema |-> fragment]; an      *)
(*    entry whose value is null/undefined has no schema field.             *)
(*  - The value of allOf/anyOf/oneOf/not is Arr(seq) when it is an array   *)
(*    and Obj(fragment) when it is a single sub-schema.                    *)
(*  - A built property is a record of its fields; class is the name of the *)
(*    constructor that made it (what instanceof looks at).  description,   *)
(*    example and exampleFormat are copied from the fragment unchanged and *)
(*    are left out.                                                        *)
(*  - A constructor that can throw returns [threw |-> TRUE]; otherwise     *)
(*    [threw |-> FALSE, prop |-> the object, contract |-> the fragment as  *)
(*    the constructor left it] (the code writes `type` onto the child      *)
(*    fragments).                                                          *)
(***************************************************************************)
EXTENDS Integers, Sequences, FiniteSets, TLC

VARIABLES
    contract,   \* the caller's schema fragment object, as it is now
    original,   \* the same fragment as it was before the first build
    results     \* the outcome of each `new TypeDefinition(name, contract)` so far

vars == <<contract, original, results>>

\* ---------------------------------------------------------------- bounds

MaxProps == 2
MaxBuilds == 2

\* ------------------------------------------------------- small utilities

Has(o, k) == k \in DOMAIN o

EmptyObject == << >>

Arr(s) == [array |-> s]

Obj(f) == [object |-> f]

IsArrayValue(v) == Has(v, "array")

RECURSIVE Flat(_)
Flat(ss) == IF ss = << >> THEN << >> ELSE Head(ss) \o Flat(Tail(ss))

\* ------------------------------------------------------- property types

TypeDefinitionPropertyTypePrimitive(name) ==
    [displayAs |-> "primitive", name |-> name]

TypeDefinitionPropertyTypeReference(name) ==
    [displayAs |-> "reference", name |-> name]

TypeDefinitionPropertyTypeArrayOfPrimitive(name) ==
    [displayAs |-> "arrayOfPrimitive", name |-> name]

TypeDefinitionPropertyTypeArrayOfReference(name) ==
    [displayAs |-> "arrayOfReference", name |-> name]

TypeDefinitionPropertyTypeCombination(combinationType, combination) ==
    [displayAs |-> "combination", combinationType |-> combinationType,
     combination |-> combination]

\* $ref.split("/").pop()
getTypeNameFromRef(ref) == ref[Len(ref)]

\* ----------------------------------------------------------- properties

TypeDefinitionProperty(name, c, isRequired, isArray) ==
    [name     |-> IF Has(c, "title") THEN c.title ELSE name,
     type     |-> TypeDefinitionPropertyTypePrimitive(
                      IF Has(c, "format") THEN c.format
                      ELSE IF Has(c, "type") THEN c.type ELSE "object"),
     isArray  |-> isArray,
     required |-> isRequired]

TypeDefinitionPrimitiveProperty(name, c, isRequired, isArray) ==
    TypeDefinitionProperty(name, c, isRequired, isArray)
        @@ [kind |-> "primitive", class |-> "TypeDefinitionPrimitiveProperty"]

TypeDefinitionEnumerationProperty(name, c, isRequired, isArray) ==
    TypeDefinitionProperty(name, c, isRequired, isArray)
        @@ [kind |-> "enum", class |-> "TypeDefinitionEnumerationProperty"]

CombinationKeys == <<"allOf", "anyOf", "oneOf", "not">>

CombinationLabel(k) ==
    CASE k = "allOf" -> "All of"
      [] k = "anyOf" -> "Any of"
      [] k = "oneOf" -> "One of"
      [] k = "not"   -> "Not"

\* Variant of SelectCombination: an if / else-if chain, the first present key wins.
RECURSIVE SelectFirstPresent(_, _, _)
SelectFirstPresent(c, i, sel) ==
    IF i > Len(CombinationKeys) THEN sel
    ELSE IF Has(c, CombinationKeys[i])
    THEN [combinationType |-> CombinationLabel(CombinationKeys[i]),
          combinationArray |-> c[CombinationKeys[i]]]
    ELSE SelectFirstPresent(c, i + 1, sel)

\* The four `if (contract.X)` statements: each present key overwrites the
\* selection of the ones before it.
RECURSIVE SelectCombination(_, _, _)
SelectCombination(c, i, sel) ==
    IF i > Len(CombinationKeys) THEN sel
    ELSE SelectCombination(c, i + 1,
             IF Has(c, CombinationKeys[i])
             THEN [combinationType |-> CombinationLabel(CombinationKeys[i]),
                   combinationArray |-> c[CombinationKeys[i]]]
             ELSE sel)

CombinationMember(item) ==
    IF Has(item, "ref")
    THEN TypeDefinitionPropertyTypeReference(getTypeNameFromRef(item.ref))
    ELSE TypeDefinitionPropertyTypePrimitive(
             IF Has(item, "type") THEN item.type ELSE "object")

\* combinationArray.map(...) is a TypeError when combinationArray is undefined
\* or is not an array.
TypeDefinitionCombinationProperty(name, c, isRequired) ==
    LET sel == SelectCombination(c, 1, EmptyObject)
    IN  IF ~Has(sel, "combinationArray") \/ ~IsArrayValue(sel.combinationArray)
        THEN [threw |-> TRUE]
        ELSE LET arr == sel.combinationArray.array
                 combination == [j \in 1..Len(arr) |-> CombinationMember(arr[j])]
             IN  [threw |-> FALSE,
                  prop  |-> [TypeDefinitionProperty(name, c, isRequired, FALSE)
                                EXCEPT !.type = TypeDefinitionPropertyTypeCombination(
                                                    sel.combinationType, combination)]
                            @@ [kind |-> "combination",
                                class |-> "TypeDefinitionCombinationProperty"]]

\* new TypeDefinitionIndexerProperty(type): super("[]", {}, true)
TypeDefinitionIndexerProperty(type) ==
    [TypeDefinitionProperty(<<"[", "]">>, EmptyObject, TRUE, FALSE)
        EXCEPT !.type = type]
    @@ [kind |-> "indexer", class |-> "TypeDefinitionIndexerProperty"]

\* property instanceof TypeDefinitionObjectProperty
InstanceOfObjectProperty(p) ==
    p.class \in {"TypeDefinitionObjectProperty", "TypeDefinitionIndexerProperty",
                 "TypeDefinition"}

\* Variant of flattenNestedObjects: every child is renamed and emitted, object
\* properties included.
flattenWithoutRecursion(nested, prefix) ==
    IF ~Has(nested, "properties") THEN << >>
    ELSE [i \in 1..Len(nested.properties) |->
            [nested.properties[i] EXCEPT !.name = prefix \o <<".">> \o @]]

\* Variant of flattenNestedObjects: the recursion starts the prefix afresh at
\* the child's name.
RECURSIVE flattenForgetPrefix(_, _)
flattenForgetPrefix(nested, prefix) ==
    IF ~Has(nested, "properties") THEN << >>
    ELSE Flat([i \in 1..Len(nested.properties) |->
                LET property == nested.properties[i]
                IN  IF InstanceOfObjectProperty(property)
                    THEN flattenForgetPrefix(property, property.name)
                    ELSE << [property EXCEPT !.name = prefix \o <<".">> \o @] >>])

RECURSIVE flattenNestedObjects(_, _)
flattenNestedObjects(nested, prefix) ==
    IF ~Has(nested, "properties") THEN << >>
    ELSE Flat([i \in 1..Len(nested.properties) |->
                LET property == nested.properties[i]
                IN  IF InstanceOfObjectProperty(property)
                    THEN flattenNestedObjects(property, prefix \o <<".">> \o property.name)
                    ELSE << [property EXCEPT !.name = prefix \o <<".">> \o @] >>])

\* The three `if` statements that write propertySchemaObject.type.
SetType(s, t) == [type |-> t] @@ s

\* Variant of NormalizeType: a missing type is first written as "object".
NormalizeTypeDefaulting(s) ==
    LET s0 == IF Has(s, "type") THEN s ELSE SetType(s, "object")
        s1 == IF Has(s0, "ref") THEN SetType(s0, "object") ELSE s0
        s2 == IF Has(s1, "items") THEN SetType(s1, "array") ELSE s1
    IN  IF Has(s2, "allOf") \/ Has(s2, "anyOf") \/ Has(s2, "oneOf") \/ Has(s2, "not")
        THEN SetType(s2, "combination") ELSE s2

NormalizeType(s) ==
    LET s1 == IF Has(s, "ref") THEN SetType(s, "object") ELSE s
        s2 == IF Has(s1, "items") THEN SetType(s1, "array") ELSE s1
    IN  IF Has(s2, "allOf") \/ Has(s2, "anyOf") \/ Has(s2, "oneOf") \/ Has(s2, "not")
        THEN SetType(s2, "combination") ELSE s2

\* contract.required?.includes(propertyName) || false
IsRequired(c, propertyName) ==
    Has(c, "required") /\ \E i \in 1..Len(c.required) : c.required[i] = propertyName

\* Variant of Catch: the error is thrown on.
CatchRethrow(r) == r

\* catch (error) { console.warn(...) }: the entry pushes nothing, the loop goes on
Catch(r) == IF r.threw THEN [r EXCEPT !.threw = FALSE, !.props = << >>] ELSE r

\* Variant of UnknownType: an unknown type is pushed as a primitive property.
UnknownTypePushed(propertyName, s, isRequired) ==
    << TypeDefinitionPrimitiveProperty(propertyName, s, isRequired, FALSE) >>

\* default: console.warn(`Unknown type of schema definition: ...`): nothing is pushed
UnknownType(propertyName, s, isRequired) == << >>

RECURSIVE TypeDefinitionObjectProperty(_, _, _, _, _)
RECURSIVE SwitchType(_, _, _, _, _)
RECURSIVE ForEachProperty(_, _, _, _)

\* switch (propertySchemaObject.type) { ... }: what the entry pushes onto props,
\* and the fragment as the nested constructors leave it.
SwitchType(propertyName, s, type, isRequired, nested) ==
    CASE type \in {"integer", "number", "string", "boolean"} ->
            [threw |-> FALSE, schema |-> s,
             props |-> << IF Has(s, "enum")
                          THEN TypeDefinitionEnumerationProperty(propertyName, s, isRequired, FALSE)
                          ELSE TypeDefinitionPrimitiveProperty(propertyName, s, isRequired, FALSE) >>]
      [] type = "object" ->
            LET o == TypeDefinitionObjectProperty(propertyName, s, isRequired, TRUE, TRUE)
            IN  IF o.threw THEN [threw |-> TRUE, schema |-> s, props |-> << >>]
                ELSE [threw |-> FALSE, schema |-> o.contract,
                      props |-> IF ~nested
                                THEN flattenNestedObjects(o.prop, propertyName)
                                ELSE << o.prop >>]
      [] type = "array" ->
            LET arrayProperty == TypeDefinitionPrimitiveProperty(propertyName, s, isRequired, TRUE)
            IN  IF ~Has(s, "items")
                THEN [threw |-> FALSE, schema |-> s, props |-> << >>]
                ELSE IF Has(s.items, "ref")
                THEN [threw |-> FALSE, schema |-> s,
                      props |-> << [arrayProperty EXCEPT !.type =
                                     TypeDefinitionPropertyTypeArrayOfReference(
                                         getTypeNameFromRef(s.items.ref))] >>]
                ELSE IF Has(s.items, "type")
                THEN [threw |-> FALSE, schema |-> s,
                      props |-> << [arrayProperty EXCEPT !.type =
                                     TypeDefinitionPropertyTypeArrayOfPrimitive(s.items.type)] >>]
                ELSE LET o == TypeDefinitionObjectProperty(propertyName \o <<"[", "]">>,
                                                           s.items, isRequired, TRUE, TRUE)
                     IN  IF o.threw THEN [threw |-> TRUE, schema |-> s, props |-> << >>]
                         ELSE [threw |-> FALSE,
                               schema |-> [s EXCEPT !.items = o.contract],
                               props |-> << o.prop, arrayProperty >>]
      [] type = "combination" ->
            LET c == TypeDefinitionCombinationProperty(propertyName, s, isRequired)
            IN  IF c.threw THEN [threw |-> TRUE, schema |-> s, props |-> << >>]
                ELSE [threw |-> FALSE, schema |-> s, props |-> << c.prop >>]
      [] OTHER ->
            [threw |-> FALSE, schema |-> s,
             props |-> UnknownType(propertyName, s, isRequired)]

\* Variant of TryProperty: the property is constructed from the fragment as
\* declared, and the normalized type is written afterwards.
TryPropertyLate(c, entry, nested) ==
    IF ~Has(entry, "schema")
    THEN [threw |-> FALSE, entry |-> entry, props |-> << >>]
    ELSE LET propertySchemaObject == NormalizeType(entry.schema)
             r == SwitchType(entry.name, entry.schema,
                             IF Has(propertySchemaObject, "type")
                             THEN propertySchemaObject.type ELSE "undefined",
                             IsRequired(c, entry.name), nested)
         IN  [threw |-> r.threw, props |-> r.props,
              entry |-> [entry EXCEPT !.schema = NormalizeType(r.schema)]]

\* The body of the try block for one entry of contract.properties.
TryProperty(c, entry, nested) ==
    IF ~Has(entry, "schema")
    THEN [threw |-> FALSE, entry |-> entry, props |-> << >>]
    ELSE LET propertySchemaObject == NormalizeType(entry.schema)
             r == SwitchType(entry.name, propertySchemaObject,
                             IF Has(propertySchemaObject, "type")
                             THEN propertySchemaObject.type ELSE "undefined",
                             IsRequired(c, entry.name), nested)
         IN  [threw |-> r.threw, props |-> r.props,
              entry |-> [entry EXCEPT !.schema = r.schema]]

\* Object.keys(contract.properties).forEach(...) from entry i on; acc holds
\* props and the entries as left so far.
ForEachProperty(c, nested, i, acc) ==
    IF acc.threw \/ i > Len(c.properties) THEN acc
    ELSE LET r == Catch(TryProperty(c, c.properties[i], nested))
         IN  ForEachProperty(c, nested, i + 1,
                 [threw      |-> r.threw,
                  props      |-> acc.props \o r.props,
                  properties |-> Append(acc.properties, r.entry)])

TypeDefinitionObjectProperty(name, c, isRequired, isArray, nested) ==
    LET base == TypeDefinitionProperty(name, c, isRequired, isArray)
                    @@ [kind |-> "object", class |-> "TypeDefinitionObjectProperty"]
    IN  IF Has(c, "ref")
        THEN [threw |-> FALSE, contract |-> c,
              prop |-> [base EXCEPT !.type = TypeDefinitionPropertyTypeReference(
                                                 getTypeNameFromRef(c.ref))]]
        ELSE IF Has(c, "items")
        THEN LET t0 == TypeDefinitionPropertyTypePrimitive("object")
                 t1 == IF Has(c.items, "type")
                       THEN TypeDefinitionPropertyTypePrimitive(c.items.type) ELSE t0
                 t2 == IF Has(c.items, "ref")
                       THEN TypeDefinitionPropertyTypeReference(getTypeNameFromRef(c.items.ref))
                       ELSE t1
             IN  [threw |-> FALSE, contract |-> c,
                  prop |-> [base EXCEPT !.kind = "indexer"]
                           @@ [properties |-> << TypeDefinitionIndexerProperty(t2) >>]]
        ELSE LET e == IF Has(c, "enum")
                      THEN [base EXCEPT !.kind = "enum"] @@ [enum |-> c.enum]
                      ELSE base
             IN  IF ~Has(c, "properties")
                 THEN [threw |-> FALSE, contract |-> c, prop |-> e]
                 ELSE LET r == ForEachProperty(c, nested, 1,
                                   [threw |-> FALSE, props |-> << >>, properties |-> << >>])
                      IN  IF r.threw THEN [threw |-> TRUE]
                          ELSE [threw |-> FALSE,
                                contract |-> [c EXCEPT !.properties = r.properties],
                                prop |-> e @@ [properties |-> r.props]]

\* new TypeDefinition(name, contract)
TypeDefinition(name, c) ==
    LET o == TypeDefinitionObjectProperty(name, c, TRUE, FALSE, FALSE)
    IN  IF o.threw THEN [threw |-> TRUE, contract |-> c]
        ELSE [threw |-> FALSE, contract |-> o.contract,
              prop |-> [o.prop EXCEPT !.name = name, !.class = "TypeDefinition"]]

\* ------------------------------------------------------------- inputs

PetRef == <<"#", "components", "schemas", "Pet">>

TagRef == <<"#", "definitions", "Tag">>

StringSchema == [type |-> "string"]

Entry(key, schema) == [name |-> key, schema |-> schema]

\* Object-shaped array elements: no $ref and no type on `items`.
ElementSchema ==
    [properties |-> << Entry(<<"f">>, StringSchema),
                       Entry(<<"o">>, [type |-> "object",
                                       properties |-> << Entry(<<"c">>, StringSchema) >>]),
                       Entry(<<"r">>, [ref |-> PetRef]),
                       Entry(<<"n">>, [not |-> Obj(StringSchema)]),
                       Entry(<<"m">>, [type |-> "array", items |-> [items |-> StringSchema]]) >>,
     required |-> << <<"f">> >>]

\* Fragments without nested `properties`.
LeafSchemas ==
    { StringSchema,
      [type |-> "string", title |-> <<"x">>],
      [type |-> "integer", format |-> "int32", enum |-> <<1, 2>>],
      [ref |-> PetRef],
      [items |-> StringSchema],
      [anyOf |-> Arr(<< [ref |-> PetRef] >>),
       not |-> Arr(<< StringSchema, EmptyObject >>)],
      [not |-> Obj(StringSchema)],
      [type |-> "file"] }

\* Fragments that nest other fragments.
NestedSchemas ==
    { [type |-> "object",
       properties |-> << Entry(<<"b">>, StringSchema),
                         Entry(<<"u">>, [format |-> "binary"]),
                         Entry(<<"e">>, [type |-> "array"]),
                         Entry(<<"t">>, [type |-> "array", items |-> [ref |-> TagRef]]) >>],
      [type |-> "object",
       properties |-> << Entry(<<"b">>, [type |-> "object", title |-> <<"t">>,
                                          properties |-> << Entry(<<"c">>, [type |-> "number",
                                                                            title |-> <<"d">>]) >>]),
                         Entry(<<"r">>, [ref |-> TagRef]),
                         Entry(<<"c">>, [items |-> [type |-> "integer"]]) >>,
       required |-> << <<"c">> >>],
      [type |-> "object",
       properties |-> << Entry(<<"x">>, [type |-> "array", items |-> ElementSchema]),
                         Entry(<<"b">>, StringSchema) >>],
      [items |-> ElementSchema] }

ChildSchemas == LeafSchemas \cup NestedSchemas

\* The keys a root fragment may declare, in the order it declares them.
RootKeys == << <<"a">>, <<"a", ".", "b">>, <<"x">>, <<"x", "[", "]">> >>

\* Strictly increasing index sequences of length n over 1..m.
RECURSIVE Increasing(_, _, _)
Increasing(n, lo, m) ==
    IF n = 0 THEN { << >> }
    ELSE UNION { { <<i>> \o t : t \in Increasing(n - 1, i + 1, m) } : i \in lo..m }

\* One entry per chosen key: a child fragment, or a null value.
NullValue == [null |-> TRUE]

Children == ChildSchemas \cup { NullValue }

\* The root fragment that declares the keys RootKeys[ks[i]] with the values
\* ch[i], the first of them required.
RootContract(ks, ch) ==
    [properties |-> [i \in 1..Len(ks) |->
                        IF ch[i] = NullValue THEN [name |-> RootKeys[ks[i]]]
                        ELSE Entry(RootKeys[ks[i]], ch[i])],
     required |-> << RootKeys[ks[1]] >>]

\* Every non-empty choice of combination keys, each with an array of members.
MemberArrays ==
    { << >>, << [ref |-> PetRef] >>, << StringSchema, EmptyObject >> }

RECURSIVE CombinationSchemas(_)
CombinationSchemas(i) ==
    IF i > Len(CombinationKeys) THEN { EmptyObject }
    ELSE LET rest == CombinationSchemas(i + 1)
         IN  rest \cup { (CombinationKeys[i] :> Arr(m)) @@ r : m \in MemberArrays, r \in rest }

CombinationContracts ==
    { [properties |-> << Entry(<<"p">>, s), Entry(<<"q">>, StringSchema) >>] :
        s \in CombinationSchemas(1) \ { EmptyObject } }

TypeName == <<"T">>

\* ------------------------------------------------------------ behaviour

Init ==
    /\ \/ \E n \in 1..MaxProps :
            \E ks \in Increasing(n, 1, Len(RootKeys)) :
                \E ch \in [1..n -> Children] :
                    contract = RootContract(ks, ch)
       \/ contract \in CombinationContracts
    /\ original = contract
    /\ results = << >>

\* const t = new TypeDefinition(name, contract)
NewTypeDefinition ==
    /\ Len(results) < MaxBuilds
    /\ LET t == TypeDefinition(TypeName, contract)
       IN  /\ results' = Append(results, IF t.threw THEN [threw |-> TRUE]
                                         ELSE [threw |-> FALSE, tree |-> t.prop])
           /\ contract' = t.contract
    /\ UNCHANGED original

Next == NewTypeDefinition

Spec == Init /\ [][Next]_vars

\* ------------------------------------------ vocabulary of the properties

PrimitiveTypeNames == {"integer", "number", "string", "boolean"}

HasCombinationKey(s) ==
    \E k \in 1..Len(CombinationKeys) : Has(s, CombinationKeys[k])

\* The last combination key (in the order allOf, anyOf, oneOf, not) of s.
LastCombinationKey(s) ==
    LET present == { k \in 1..Len(CombinationKeys) : Has(s, CombinationKeys[k]) }
    IN  CombinationKeys[CHOOSE k \in present : \A j \in present : j <= k]

\* The type a declared child is handled as.
KindOf(s) ==
    IF HasCombinationKey(s) THEN "combination"
    ELSE IF Has(s, "items") THEN "array"
    ELSE IF Has(s, "ref") THEN "object"
    ELSE IF Has(s, "type") THEN s.type
    ELSE "undefined"

\* A declared child whose build throws, or whose normalized type is unknown.
Throws(s) ==
    KindOf(s) = "combination" /\ ~IsArrayValue(s[LastCombinationKey(s)])

Unrecognized(s) ==
    KindOf(s) \notin PrimitiveTypeNames \cup {"object", "array", "combination"}

ObjectItems(s) ==
    /\ KindOf(s) = "array"
    /\ Has(s, "items")
    /\ ~Has(s.items, "ref")
    /\ ~Has(s.items, "type")

\* The fragment whose `properties` are built below a declared child, if any.
HasContainer(s) ==
    \/ KindOf(s) = "object" /\ ~Has(s, "ref") /\ Has(s, "properties")
    \/ ObjectItems(s) /\ ~Has(s.items, "items") /\ Has(s.items, "properties")

Container(s) == IF KindOf(s) = "object" THEN s ELSE s.items

RECURSIVE Sum(_)
Sum(ns) == IF ns = << >> THEN 0 ELSE Head(ns) + Sum(Tail(ns))

\* How many leaves the Flattener emits for a declared child of a nested object.
RECURSIVE FlatCount(_)
FlatCount(e) ==
    IF ~Has(e, "schema") THEN 0
    ELSE LET s == e.schema
             k == KindOf(s)
             below == IF HasContainer(s)
                      THEN Sum([i \in 1..Len(Container(s).properties) |->
                                   FlatCount(Container(s).properties[i])])
                      ELSE 0
         IN  CASE k \in PrimitiveTypeNames -> 1
               [] k = "object" -> below
               [] k = "array" ->
                    IF ~Has(s, "items") THEN 0
                    ELSE IF ~ObjectItems(s) THEN 1
                    ELSE below + 1
               [] k = "combination" -> IF Throws(s) THEN 0 ELSE 1
               [] OTHER -> 0

\* How many entries a declared child adds to the property list of its parent:
\* the root flattens its object children, a nested parent keeps them.
EntryCount(e, nested) ==
    IF ~Has(e, "schema") THEN 0
    ELSE IF ObjectItems(e.schema) THEN 2
    ELSE IF nested /\ KindOf(e.schema) = "object" THEN 1
    ELSE FlatCount(e)

Offset(c, i, nested) ==
    Sum([j \in 1..(i - 1) |-> EntryCount(c.properties[j], nested)])

\* The entries of the built list `props` that the i-th declared child of c added.
Segment(props, c, i, nested) ==
    SubSeq(props, Offset(c, i, nested) + 1,
           Offset(c, i, nested) + EntryCount(c.properties[i], nested))

Segmented(props, c, nested) ==
    Len(props) = Offset(c, Len(c.properties) + 1, nested)

Built(n) == n <= Len(results) /\ ~results[n].threw

\* The root's property list after the first build, cut by declared child.
RootList == results[1].tree.properties

RootSegment(i) == Segment(RootList, original, i, FALSE)

RootEntries == 1..Len(original.properties)

Count(props, v) == Cardinality({ j \in 1..Len(props) : props[j] = v })

\* ------------------------------------------------------------------- C1

\* The nested object property the root builds for its i-th declared child.
NestedObject(i) ==
    LET e == original.properties[i]
    IN  TypeDefinitionObjectProperty(e.name, NormalizeType(e.schema),
                                     IsRequired(original, e.name), TRUE, TRUE).prop

\* The index paths from p down to its leaves: the properties that are not
\* object properties, below object properties only.
RECURSIVE LeafPaths(_)
LeafPaths(p) ==
    IF ~Has(p, "properties") THEN {}
    ELSE UNION { IF InstanceOfObjectProperty(p.properties[i])
                 THEN { <<i>> \o t : t \in LeafPaths(p.properties[i]) }
                 ELSE { <<i>> } : i \in 1..Len(p.properties) }

RECURSIVE RenamedLeaf(_, _, _)
RenamedLeaf(p, prefix, path) ==
    LET q == p.properties[Head(path)]
        name == prefix \o <<".">> \o q.name
    IN  IF Len(path) = 1 THEN [q EXCEPT !.name = name]
        ELSE RenamedLeaf(q, name, Tail(path))

IsObjectChild(i) ==
    LET e == original.properties[i]
    IN  Has(e, "schema") /\ KindOf(e.schema) = "object"

\* C1: in the root's list, a declared child whose normalized type is `object`
\* adds no object property, and adds each leaf below it exactly once, renamed
\* to the dotted path from the child's key down to the leaf.
C1_FlattenedLeaves ==
    Built(1) =>
        /\ Segmented(RootList, original, FALSE)
        /\ \A i \in RootEntries :
              IsObjectChild(i) =>
                  LET seg == RootSegment(i)
                      object == NestedObject(i)
                      paths == LeafPaths(object)
                      leaf == [t \in paths |->
                                 RenamedLeaf(object, original.properties[i].name, t)]
                  IN  /\ \A j \in 1..Len(seg) : ~InstanceOfObjectProperty(seg[j])
                      /\ \A j \in 1..Len(seg) : \E t \in paths : seg[j] = leaf[t]
                      /\ \A t \in paths :
                            Count(seg, leaf[t])
                              = Cardinality({ u \in paths : leaf[u] = leaf[t] })

\* A root with an object child that has a leaf two levels down.
C1_Witness ==
    /\ Built(1)
    /\ \E i \in RootEntries :
          /\ IsObjectChild(i)
          /\ \E t \in LeafPaths(NestedObject(i)) : Len(t) >= 2
          /\ Len(RootSegment(i)) >= 2

\* ------------------------------------------------------------------- C2

Fails(s) == Throws(s) \/ Unrecognized(s)

\* The index paths, through `properties` and object-shaped `items`, to the
\* declared children of c that the build visits and that fail.
RECURSIVE FailingPaths(_)
FailingPaths(c) ==
    UNION { LET e == c.properties[i]
            IN  IF ~Has(e, "schema") THEN {}
                ELSE (IF Fails(e.schema) THEN { <<i>> } ELSE {})
                     \cup (IF HasContainer(e.schema)
                           THEN { <<i>> \o t : t \in FailingPaths(Container(e.schema)) }
                           ELSE {}) : i \in 1..Len(c.properties) }

RemoveIndex(seq, i) == SubSeq(seq, 1, i - 1) \o SubSeq(seq, i + 1, Len(seq))

\* c with the declared child at `path` not declared at all.
RECURSIVE RemoveAt(_, _)
RemoveAt(c, path) ==
    IF Len(path) = 1
    THEN [c EXCEPT !.properties = RemoveIndex(@, Head(path))]
    ELSE LET s == c.properties[Head(path)].schema
         IN  [c EXCEPT !.properties[Head(path)].schema =
                  IF KindOf(s) = "object" THEN RemoveAt(s, Tail(path))
                  ELSE [s EXCEPT !.items = RemoveAt(s.items, Tail(path))]]

\* C2: a declared child whose build throws or whose type is unknown adds
\* nothing, the build completes, and the tree is the one built from the same
\* fragment without that child: every other child adds what it adds alone.
C2_FailingChildDropped ==
    Len(results) >= 1 =>
        \A t \in FailingPaths(original) :
            LET other == TypeDefinition(TypeName, RemoveAt(original, t))
            IN  /\ ~results[1].threw
                /\ ~other.threw
                /\ results[1].tree = other.prop
                /\ Len(t) = 1 => RootSegment(Head(t)) = << >>

\* A root whose first declared child throws, with a sibling after it that is
\* built, and one where the failing child comes last.
C2_Witness ==
    /\ Built(1)
    /\ Len(original.properties) >= 2
    /\ Has(original.properties[1], "schema")
    /\ Throws(original.properties[1].schema)
    /\ Len(RootList) >= 1
    /\ \E t \in FailingPaths(original) : Len(t) >= 2

\* ------------------------------------------------------------------- C3

IsRefChild(e) ==
    Has(e, "schema") /\ Has(e.schema, "ref") /\ ~Has(e.schema, "items")
        /\ ~HasCombinationKey(e.schema)

DisplayName(e) == IF Has(e.schema, "title") THEN e.schema.title ELSE e.name

\* props holds the reference property of the declared child e.
HoldsReference(props, e) ==
    \E j \in 1..Len(props) :
        /\ props[j].name = DisplayName(e)
        /\ props[j].type = [displayAs |-> "reference", name |-> e.schema.ref[Len(e.schema.ref)]]
        /\ ~Has(props[j], "properties")

\* The root's declared children that are arrays of object-shaped elements
\* with fields of their own.
IsElementArray(i) ==
    LET e == original.properties[i]
    IN  Has(e, "schema") /\ ObjectItems(e.schema) /\ HasContainer(e.schema)

\* C3: a declared $ref child yields a Reference property without children in
\* its parent's list, under the root (non-nested) and under a nested parent.
C3_ReferencePresent ==
    Built(1) =>
        /\ \A i \in RootEntries :
              IsRefChild(original.properties[i]) =>
                  HoldsReference(RootList, original.properties[i])
        /\ \A i \in RootEntries :
              IsElementArray(i) =>
                  \A k \in 1..Len(original.properties[i].schema.items.properties) :
                      LET e == original.properties[i].schema.items.properties[k]
                      IN  IsRefChild(e) =>
                              HoldsReference(RootSegment(i)[1].properties, e)

\* ------------------------------------------------------------------- C4

IsCombinationChild(e) ==
    /\ Has(e, "schema")
    /\ HasCombinationKey(e.schema)
    /\ \A k \in 1..Len(CombinationKeys) :
          Has(e.schema, CombinationKeys[k]) => IsArrayValue(e.schema[CombinationKeys[k]])

ExpectedMember(item) ==
    IF Has(item, "ref")
    THEN [displayAs |-> "reference", name |-> item.ref[Len(item.ref)]]
    ELSE [displayAs |-> "primitive",
          name |-> IF Has(item, "type") THEN item.type ELSE "object"]

\* C4: a declared child with array-valued combination keys yields one
\* combination property, named after the last present key in the order
\* allOf, anyOf, oneOf, not, whose members map that key's array one to one
\* (Reference for a $ref member, else Primitive of its type, default object)
\* and which has no child properties.
C4_CombinationPrecedence ==
    Built(1) =>
        \A i \in RootEntries :
            LET e == original.properties[i]
            IN  IsCombinationChild(e) =>
                    LET key == LastCombinationKey(e.schema)
                        arr == e.schema[key].array
                        seg == RootSegment(i)
                    IN  /\ Segmented(RootList, original, FALSE)
                        /\ Len(seg) = 1
                        /\ seg[1].kind = "combination"
                        /\ seg[1].type.displayAs = "combination"
                        /\ seg[1].type.combinationType = CombinationLabel(key)
                        /\ seg[1].type.combination =
                               [j \in 1..Len(arr) |-> ExpectedMember(arr[j])]
                        /\ ~Has(seg[1], "properties")

\* `not` overrides `anyOf`: both present with different member arrays.
C4_Witness ==
    /\ Built(1)
    /\ \E i \in RootEntries :
          LET e == original.properties[i]
          IN  /\ IsCombinationChild(e)
              /\ Has(e.schema, "anyOf")
              /\ Has(e.schema, "not")
              /\ e.schema.anyOf # e.schema["not"]
              /\ RootSegment(i)[1].type.combinationType = "Not"
              /\ Len(RootSegment(i)[1].type.combination) = 2

\* ------------------------------------------------------------------- C5

\* Every property list of the tree below p, at every depth.
RECURSIVE AllLists(_)
AllLists(p) ==
    IF ~Has(p, "properties") THEN {}
    ELSE { p.properties }
         \cup UNION { AllLists(p.properties[i]) : i \in 1..Len(p.properties) }

ArrayTypeTags == {"arrayOfPrimitive", "arrayOfReference"}

\* list[j] is the array property of an array of objects (its type stays a
\* generic primitive), or the element object built just before it.
IsObjectArrayPart(list, j) ==
    \/ /\ list[j].class = "TypeDefinitionPrimitiveProperty"
       /\ list[j].type.displayAs = "primitive"
    \/ /\ InstanceOfObjectProperty(list[j])
       /\ j < Len(list)
       /\ list[j + 1].class = "TypeDefinitionPrimitiveProperty"
       /\ list[j + 1].type.displayAs = "primitive"
       /\ list[j + 1].isArray

\* C5: at every depth, isArray is true exactly for the properties typed
\* ArrayOfPrimitive or ArrayOfReference and for the parts of an array of
\* objects; a plain object child or a $ref child never has isArray true.
C5_IsArrayOnlyForArrays ==
    Built(1) =>
        \A list \in AllLists(results[1].tree) :
            \A j \in 1..Len(list) :
                /\ list[j].type.displayAs \in ArrayTypeTags => list[j].isArray
                /\ list[j].isArray =>
                      \/ list[j].type.displayAs \in ArrayTypeTags
                      \/ IsObjectArrayPart(list, j)

\* ------------------------------------------------------------------ C10

\* How many arrays of object-shaped elements a declared child of the root
\* declares: itself, or below the object children the root flattens.
RECURSIVE ElementArrays(_)
ElementArrays(e) ==
    IF ~Has(e, "schema") THEN 0
    ELSE IF ObjectItems(e.schema) THEN 1
    ELSE IF KindOf(e.schema) = "object" /\ HasContainer(e.schema)
    THEN Sum([i \in 1..Len(e.schema.properties) |->
                 ElementArrays(e.schema.properties[i])])
    ELSE 0

\* C10: every array of object-shaped elements, declared under the root or
\* under an object child the root flattens, leaves one element object property
\* in the final tree that still owns the element's fields.
C10_ElementObjectKept ==
    Built(1) =>
        \A i \in RootEntries :
            LET e == original.properties[i]
                seg == RootSegment(i)
                kept == { j \in 1..Len(seg) : InstanceOfObjectProperty(seg[j]) }
            IN  /\ Cardinality(kept) = ElementArrays(e)
                /\ \A j \in kept :
                      Has(seg[j], "properties") /\ Len(seg[j].properties) >= 1

\* ------------------------------------------------------------------- C6

DistinctNames(props) ==
    \A j, k \in 1..Len(props) : j # k => props[j].name # props[k].name

\* The dotted concatenations of the keys along the declared paths that start
\* at the declared child e; an array ancestor adds `mark` to its key.
RECURSIVE PathNames(_, _)
PathNames(e, mark) ==
    IF ~Has(e, "schema") THEN {}
    ELSE { e.name }
         \cup (IF HasContainer(e.schema)
               THEN LET head == IF KindOf(e.schema) = "array" THEN e.name \o mark
                                ELSE e.name
                        below == UNION { PathNames(Container(e.schema).properties[i], mark) :
                                           i \in 1..Len(Container(e.schema).properties) }
                    IN  { head \o <<".">> \o n : n \in below }
               ELSE {})

FlattenedNamesAreKeyPaths(mark) ==
    \A i \in RootEntries :
        IsObjectChild(i) =>
            \A j \in 1..Len(RootSegment(i)) :
                RootSegment(i)[j].name \in PathNames(original.properties[i], mark)

\* C6 as stated: the names of the root's list are pairwise distinct and each
\* flattened leaf is named by the dotted keys of its ancestors and itself,
\* whatever the titles and keys.
C6_DistinctKeyPathNames ==
    Built(1) =>
        /\ DistinctNames(RootList)
        /\ FlattenedNamesAreKeyPaths(<< >>)

PlainKey(k) ==
    /\ \A n \in 1..Len(k) : k[n] # "."
    /\ ~(Len(k) >= 2 /\ k[Len(k) - 1] = "[" /\ k[Len(k)] = "]")

\* No fragment carries a title and no key contains "." or ends in "[]".
RECURSIVE PlainSchema(_)
PlainSchema(s) ==
    /\ ~Has(s, "title")
    /\ Has(s, "items") => PlainSchema(s.items)
    /\ Has(s, "properties") =>
          \A i \in 1..Len(s.properties) :
              /\ PlainKey(s.properties[i].name)
              /\ Has(s.properties[i], "schema") => PlainSchema(s.properties[i].schema)

\* C6 amended: when no fragment carries a title and no key contains "." or
\* ends in "[]", the names of the root's list are pairwise distinct and each
\* flattened leaf is named by the dotted keys of its ancestors and itself,
\* an array ancestor giving its key followed by "[]".
C6_DistinctNamesPlainKeys ==
    (Built(1) /\ PlainSchema(original)) =>
        /\ DistinctNames(RootList)
        /\ FlattenedNamesAreKeyPaths(<<"[", "]">>)

\* Plain keys, an object child flattened to several leaves, one of them
\* below an array of objects.
C6_Witness ==
    /\ Built(1)
    /\ PlainSchema(original)
    /\ Len(RootList) >= 3
    /\ \E i \in RootEntries :
          /\ IsObjectChild(i)
          /\ \E j \in 1..Len(RootSegment(i)) :
                \E n \in 1..Len(RootSegment(i)[j].name) :
                    /\ RootSegment(i)[j].name[n] = "["
                    /\ n + 1 < Len(RootSegment(i)[j].name)

\* ------------------------------------------------------------------- C7

\* C7: successive builds from the same fragment object, each seeing the
\* fragment as the build before left it, give equal outcomes.
C7_RebuildEqual ==
    \A i, j \in 1..Len(results) : results[i] = results[j]

\* Two builds, the first of which wrote onto the fragment.
C7_Witness ==
    /\ Built(2)
    /\ contract # original
    /\ Len(RootList) >= 2

\* ------------------------------------------------------------------- C8

\* C8 as stated: the build leaves the fragment as it was.
C8_InputUnchanged ==
    Len(results) >= 1 => contract = original

WritesType(o) == Has(o, "ref") \/ Has(o, "items") \/ HasCombinationKey(o)

SameType(o, c) == Has(c, "type") = Has(o, "type") /\ (Has(o, "type") => c.type = o.type)

\* c is o except that `type` may have been overwritten with the normalized
\* type on declared children that have $ref, items or a combination key.
RECURSIVE SameButTypes(_, _, _)
SameButTypes(o, c, declared) ==
    /\ DOMAIN c \ {"type"} = DOMAIN o \ {"type"}
    /\ \A k \in DOMAIN o \ {"type", "properties", "items"} : c[k] = o[k]
    /\ IF declared /\ WritesType(o)
       THEN SameType(o, c) \/ (Has(c, "type") /\ c.type = KindOf(o))
       ELSE SameType(o, c)
    /\ Has(o, "items") => SameButTypes(o.items, c.items, FALSE)
    /\ Has(o, "properties") =>
          /\ Len(c.properties) = Len(o.properties)
          /\ \A i \in 1..Len(o.properties) :
                /\ c.properties[i].name = o.properties[i].name
                /\ Has(c.properties[i], "schema") = Has(o.properties[i], "schema")
                /\ Has(o.properties[i], "schema") =>
                      SameButTypes(o.properties[i].schema, c.properties[i].schema, TRUE)

\* C8 amended: the build changes nothing but `type`, and `type` only on
\* declared children that have $ref, items or a combination key, where it
\* becomes object, array or combination; on the children of a root that has
\* neither $ref nor items it always does.
C8_OnlyTypeWritten ==
    Len(results) >= 1 =>
        /\ SameButTypes(original, contract, FALSE)
        /\ \A i \in RootEntries :
              (/\ ~Has(original, "ref")
               /\ ~Has(original, "items")
               /\ Has(original.properties[i], "schema")
               /\ WritesType(original.properties[i].schema)) =>
                  contract.properties[i].schema.type = KindOf(original.properties[i].schema)

\* A build that wrote `type` onto a child of the root and onto a deeper one.
C8_Witness ==
    /\ Built(1)
    /\ \E i \in RootEntries :
          /\ Has(original.properties[i], "schema")
          /\ WritesType(original.properties[i].schema)
          /\ ~Has(original.properties[i].schema, "type")
          /\ Has(original.properties[i].schema, "items")
          /\ contract.properties[i].schema.items # original.properties[i].schema.items

\* ------------------------------------------------------------------- C9

IsNotSingle(s) == Has(s, "not") /\ ~IsArrayValue(s["not"])

\* The index paths to the visited declared children whose `not` is a single
\* sub-schema.
RECURSIVE NotSinglePaths(_)
NotSinglePaths(c) ==
    UNION { LET e == c.properties[i]
            IN  IF ~Has(e, "schema") THEN {}
                ELSE (IF IsNotSingle(e.schema) THEN { <<i>> } ELSE {})
                     \cup (IF HasContainer(e.schema)
                           THEN { <<i>> \o t : t \in NotSinglePaths(Container(e.schema)) }
                           ELSE {}) : i \in 1..Len(c.properties) }

\* C9 as stated: a declared property whose `not` is a single sub-schema makes
\* the whole build throw.
C9_NotSingleThrows ==
    (Len(results) >= 1 /\ NotSinglePaths(original) # {}) => results[1].threw

\* C9 amended: the error raised for a declared property whose `not` is a
\* single sub-schema is caught at the per-property boundary: the build
\* returns a tree, and that property is not in its parent's list.
C9_NotSingleCaught ==
    Len(results) >= 1 =>
        \A t \in NotSinglePaths(original) :
            /\ ~results[1].threw
            /\ Has(results[1].tree, "properties")
            /\ Segmented(RootList, original, FALSE)
            /\ Len(t) = 1 => RootSegment(Head(t)) = << >>

\* A root with a `not` single-schema child and another child that is built.
C9_Witness ==
    /\ Built(1)
    /\ Len(RootList) >= 1
    /\ \E t \in NotSinglePaths(original) : Len(t) = 1

====
